---------------------------- MODULE Spec2Model ----------------------------
(***************************************************************************)
(* A model of src/chatgpt/index.js:                                        *)
(*   - createParser2: the incremental server-sent-event parser that runs   *)
(*     inside browserPostEventStream (SpecParser);                         *)
(*   - pTimeout2: the cancelable deadline wrapper (SpecTimeout);           *)
(*   - the message exchange of ChatGPTAPI.sendMessage and of               *)
(*     browserPostEventStream: request, stream consumption, onMessage,     *)
(*     deadline (SpecExchange);                                            *)
(*   - ChatGPTAPIBrowser.sendMessage: the retry / re-authentication loop   *)
(*     and the progress-handler registry (SpecBrowser).                    *)
(* Strings are sequences of one-character strings.                         *)
(***************************************************************************)
EXTENDS Integers, Sequences, FiniteSets, TLC

VARIABLES
    \* ---- createParser2 (SpecParser)
    text,        \* the whole event-stream text the transport will deliver
    rest,        \* the part of text not yet fed
    parser,      \* the parser's closure variables and the onParse log
    chunked,     \* whether feed has been called more than once
    \* ---- pTimeout2 and the exchange (SpecTimeout, SpecExchange)
    opts,        \* the options of the call under study
    op,          \* the wrapped promise (responseP): state, value
    wrapper,     \* the promise pTimeout2 returns: state, value
    timer,       \* "none" | "armed" | "fired" | "cleared"
    signal,      \* the external AbortSignal: "none" | "idle" | "aborted"
    cancelCalls, \* how many times promise.cancel() was invoked
    xch,         \* the exchange: position, snapshot, stream, call outcome
    progress,    \* the snapshots handed to the caller's onProgress, in order
    delivered,   \* the event data strings onMessage has received, in order
    \* ---- ChatGPTAPIBrowser.sendMessage (SpecBrowser)
    calls,       \* per call: position, numTries, is401, result, outcome
    handlers,    \* _messageOnProgressHandlers: the message ids registered
    session,     \* getIsAuthenticated()'s answer, and _isRefreshing
    trace,       \* per call: its resetSession / refreshSession calls and the
                 \* outcomes of its transport attempts, in order
    notified,    \* the latest call of ChatGPTAPIBrowserOnProgress: "none"
                 \* before the first, then whose callback it invoked
    refreshSeen, \* history, per call: since the call's latest transport
                 \* attempt, has a page reload of refreshSession begun
                 \* ("started"), and has one that began since then ended
                 \* ("completed")
    \* ---- ChatGPTAPI's access token cache (SpecCache)
    now,         \* the current time
    cache,       \* _accessTokenCache: the entry under KEY_ACCESS_TOKEN
    lastRefresh  \* the latest refreshSession call: when, its result, and
                 \* whether it contacted the session endpoint

parserVars == <<text, rest, parser, chunked>>
timeoutVars == <<opts, op, wrapper, timer, signal, cancelCalls>>
exchangeVars == <<xch, progress, delivered>>
browserVars == <<calls, handlers, session, trace>>
cacheVars == <<now, cache, lastRefresh>>
progressVars == <<notified, refreshSeen>>
vars == <<parserVars, timeoutVars, exchangeVars, browserVars, cacheVars, progressVars>>
\* what the steps of each component leave alone
parserFrame == <<timeoutVars, exchangeVars, browserVars, cacheVars, progressVars>>
timeoutFrame == <<opts, parserVars, exchangeVars, browserVars, cacheVars, progressVars>>
exchangeFrame == <<parserVars, browserVars, cacheVars, progressVars>>
browserFrame == <<parserVars, timeoutVars, exchangeVars, cacheVars, progressVars>>
cacheFrame == <<parserVars, timeoutVars, exchangeVars, browserVars, progressVars>>

Min(a, b) == IF a < b THEN a ELSE b

(***************************************************************************)
(* Characters and strings                                                  *)
(***************************************************************************)
CR == "\r"
LF == "\n"
NUL == "NUL"
\* const BOM = [239, 187, 191]: three characters, named by their codes
BOM == <<"EF", "BB", "BF">>
\* what indexing past the end of a string yields
Undefined == "undefined"

\* s[i], 0-based
CharAt(s, i) == IF i >= 0 /\ i < Len(s) THEN s[i + 1] ELSE Undefined
\* s.slice(a, b), 0-based, for 0 <= a
Slice(s, a, b) == SubSeq(s, a + 1, Min(b, Len(s)))
\* s.slice(a)
SliceFrom(s, a) == SubSeq(s, a + 1, Len(s))

\* an optional string: undefined, or a value
None == [some |-> FALSE, val |-> <<>>]
Some(v) == [some |-> TRUE, val |-> v]

S_data == <<"d", "a", "t", "a">>
S_event == <<"e", "v", "e", "n", "t">>
S_id == <<"i", "d">>
S_retry == <<"r", "e", "t", "r", "y">>
Digits == {"0", "1", "2", "3", "4", "5", "6", "7", "8", "9"}

\* Number.isNaN(parseInt(value, 10)) is false: after optional white space and
\* an optional sign the value starts with a decimal digit
RECURSIVE SkipSpace(_)
SkipSpace(v) == IF v # <<>> /\ Head(v) \in {" ", CR, LF} THEN SkipSpace(Tail(v)) ELSE v
ParsesAsInt(value) ==
    LET v == SkipSpace(value)
        w == IF v # <<>> /\ Head(v) \in {"+", "-"} THEN Tail(v) ELSE v
    IN  w # <<>> /\ Head(w) \in Digits
\* the decimal digits parseInt reads
RECURSIVE DigitPrefix(_)
DigitPrefix(w) == IF w # <<>> /\ Head(w) \in Digits THEN <<Head(w)>> \o DigitPrefix(Tail(w)) ELSE <<>>
ParseIntDigits(value) ==
    LET v == SkipSpace(value)
        w == IF v # <<>> /\ Head(v) \in {"+", "-"} THEN Tail(v) ELSE v
    IN  DigitPrefix(w)

(***************************************************************************)
(* createParser2                                                           *)
(***************************************************************************)
\* reset(): the closure variables after createParser2; out is the onParse log
reset ==
    [isFirstChunk |-> TRUE, buffer |-> <<>>, startingPosition |-> 0,
     startingFieldLength |-> -1, eventId |-> None, eventName |-> None,
     data |-> <<>>, out |-> <<>>, rescanned |-> FALSE]

hasBom(buffer) == \A i \in 1..Len(BOM) : CharAt(buffer, i - 1) = BOM[i]

\* parseEventStreamLine with "eventId = void 0" after the dispatch block instead
\* of inside it: every blank line clears the pending id
parseEventStreamLineClearsId(st, index, fieldLength, lineLength) ==
    IF lineLength = 0
    THEN IF Len(st.data) > 0
         THEN [st EXCEPT
                 !.out = Append(@, [type |-> "event",
                                    id |-> st.eventId,
                                    event |-> IF st.eventName.some /\ st.eventName.val # <<>>
                                              THEN st.eventName ELSE None,
                                    data |-> Slice(st.data, 0, Len(st.data) - 1)]),
                 !.data = <<>>,
                 !.eventId = None,
                 !.eventName = None]
         ELSE [st EXCEPT !.eventName = None, !.eventId = None]
    ELSE
    LET noValue == fieldLength < 0
        field == Slice(st.buffer, index, index + (IF noValue THEN lineLength ELSE fieldLength))
        step == IF noValue THEN lineLength
                ELSE IF CharAt(st.buffer, index + fieldLength + 1) = " " THEN fieldLength + 2
                ELSE fieldLength + 1
        position == index + step
        valueLength == lineLength - step
        value == IF valueLength > 0 THEN Slice(st.buffer, position, position + valueLength) ELSE <<>>
    IN  IF field = S_data
        THEN [st EXCEPT !.data = @ \o (IF value # <<>> THEN value \o <<LF>> ELSE <<LF>>)]
        ELSE IF field = S_event
        THEN [st EXCEPT !.eventName = Some(value)]
        ELSE IF field = S_id /\ ~(\E i \in 1..Len(value) : value[i] = NUL)
        THEN [st EXCEPT !.eventId = Some(value)]
        ELSE IF field = S_retry /\ ParsesAsInt(value)
        THEN [st EXCEPT !.out = Append(@, [type |-> "reconnect-interval",
                                            id |-> None, event |-> None,
                                            data |-> ParseIntDigits(value)])]
        ELSE st

\* parseEventStreamLine without the test of the id value for NUL: every id line
\* sets the pending id
parseEventStreamLineAnyId(st, index, fieldLength, lineLength) ==
    IF lineLength = 0
    THEN IF Len(st.data) > 0
         THEN [st EXCEPT
                 !.out = Append(@, [type |-> "event",
                                    id |-> st.eventId,
                                    event |-> IF st.eventName.some /\ st.eventName.val # <<>>
                                              THEN st.eventName ELSE None,
                                    data |-> Slice(st.data, 0, Len(st.data) - 1)]),
                 !.data = <<>>,
                 !.eventId = None,
                 !.eventName = None]
         ELSE [st EXCEPT !.eventName = None]
    ELSE
    LET noValue == fieldLength < 0
        field == Slice(st.buffer, index, index + (IF noValue THEN lineLength ELSE fieldLength))
        step == IF noValue THEN lineLength
                ELSE IF CharAt(st.buffer, index + fieldLength + 1) = " " THEN fieldLength + 2
                ELSE fieldLength + 1
        position == index + step
        valueLength == lineLength - step
        value == IF valueLength > 0 THEN Slice(st.buffer, position, position + valueLength) ELSE <<>>
    IN  IF field = S_data
        THEN [st EXCEPT !.data = @ \o (IF value # <<>> THEN value \o <<LF>> ELSE <<LF>>)]
        ELSE IF field = S_event
        THEN [st EXCEPT !.eventName = Some(value)]
        ELSE IF field = S_id
        THEN [st EXCEPT !.eventId = Some(value)]
        ELSE IF field = S_retry /\ ParsesAsInt(value)
        THEN [st EXCEPT !.out = Append(@, [type |-> "reconnect-interval",
                                            id |-> None, event |-> None,
                                            data |-> ParseIntDigits(value)])]
        ELSE st

\* parseEventStreamLine with a data line of empty value adding nothing to data
parseEventStreamLineSkipsEmpty(st, index, fieldLength, lineLength) ==
    IF lineLength = 0
    THEN IF Len(st.data) > 0
         THEN [st EXCEPT
                 !.out = Append(@, [type |-> "event",
                                    id |-> st.eventId,
                                    event |-> IF st.eventName.some /\ st.eventName.val # <<>>
                                              THEN st.eventName ELSE None,
                                    data |-> Slice(st.data, 0, Len(st.data) - 1)]),
                 !.data = <<>>,
                 !.eventId = None,
                 !.eventName = None]
         ELSE [st EXCEPT !.eventName = None]
    ELSE
    LET noValue == fieldLength < 0
        field == Slice(st.buffer, index, index + (IF noValue THEN lineLength ELSE fieldLength))
        step == IF noValue THEN lineLength
                ELSE IF CharAt(st.buffer, index + fieldLength + 1) = " " THEN fieldLength + 2
                ELSE fieldLength + 1
        position == index + step
        valueLength == lineLength - step
        value == IF valueLength > 0 THEN Slice(st.buffer, position, position + valueLength) ELSE <<>>
    IN  IF field = S_data
        THEN [st EXCEPT !.data = @ \o (IF value # <<>> THEN value \o <<LF>> ELSE <<>>)]
        ELSE IF field = S_event
        THEN [st EXCEPT !.eventName = Some(value)]
        ELSE IF field = S_id /\ ~(\E i \in 1..Len(value) : value[i] = NUL)
        THEN [st EXCEPT !.eventId = Some(value)]
        ELSE IF field = S_retry /\ ParsesAsInt(value)
        THEN [st EXCEPT !.out = Append(@, [type |-> "reconnect-interval",
                                            id |-> None, event |-> None,
                                            data |-> ParseIntDigits(value)])]
        ELSE st

\* parseEventStreamLine(lineBuffer, index, fieldLength, lineLength) on the
\* closure variables st, with lineBuffer = st.buffer
parseEventStreamLine(st, index, fieldLength, lineLength) ==
    IF lineLength = 0
    THEN IF Len(st.data) > 0
         THEN [st EXCEPT
                 !.out = Append(@, [type |-> "event",
                                    id |-> st.eventId,
                                    event |-> IF st.eventName.some /\ st.eventName.val # <<>>
                                              THEN st.eventName ELSE None,
                                    data |-> Slice(st.data, 0, Len(st.data) - 1)]),
                 !.data = <<>>,
                 !.eventId = None,
                 !.eventName = None]
         ELSE [st EXCEPT !.eventName = None]
    ELSE
    LET noValue == fieldLength < 0
        field == Slice(st.buffer, index, index + (IF noValue THEN lineLength ELSE fieldLength))
        step == IF noValue THEN lineLength
                ELSE IF CharAt(st.buffer, index + fieldLength + 1) = " " THEN fieldLength + 2
                ELSE fieldLength + 1
        position == index + step
        valueLength == lineLength - step
        value == IF valueLength > 0 THEN Slice(st.buffer, position, position + valueLength) ELSE <<>>
    IN  IF field = S_data
        THEN [st EXCEPT !.data = @ \o (IF value # <<>> THEN value \o <<LF>> ELSE <<LF>>)]
        ELSE IF field = S_event
        THEN [st EXCEPT !.eventName = Some(value)]
        ELSE IF field = S_id /\ ~(\E i \in 1..Len(value) : value[i] = NUL)
        THEN [st EXCEPT !.eventId = Some(value)]
        ELSE IF field = S_retry /\ ParsesAsInt(value)
        THEN [st EXCEPT !.out = Append(@, [type |-> "reconnect-interval",
                                            id |-> None, event |-> None,
                                            data |-> ParseIntDigits(value)])]
        ELSE st

\* the for loop of feed: from index, until a line end is found or the buffer
\* is exhausted; s carries lineLength, fieldLength, discardTrailingNewline
RECURSIVE ScanLine(_, _, _, _)
ScanLine(buffer, position, index, s) ==
    IF ~(s.lineLength < 0 /\ index < Len(buffer)) THEN s
    ELSE LET character == CharAt(buffer, index)
         IN  IF character = ":" /\ s.fieldLength < 0
             THEN ScanLine(buffer, position, index + 1, [s EXCEPT !.fieldLength = index - position])
             ELSE IF character = CR
             THEN ScanLine(buffer, position, index + 1,
                           [s EXCEPT !.discardTrailingNewline = TRUE,
                                     !.lineLength = index - position])
             ELSE IF character = LF
             THEN ScanLine(buffer, position, index + 1, [s EXCEPT !.lineLength = index - position])
             ELSE ScanLine(buffer, position, index + 1, s)

\* the while loop of feed; returns the closure variables and the final
\* position.  rescanned records that some for loop read buffer[index] at an
\* index below position.
RECURSIVE FeedLoop(_, _, _)
FeedLoop(st0, position0, discard0) ==
    LET length == Len(st0.buffer) IN
    IF ~(position0 < length) THEN [st |-> st0, position |-> position0]
    ELSE
    LET position == IF discard0 /\ CharAt(st0.buffer, position0) = LF
                    THEN position0 + 1 ELSE position0
        st == [st0 EXCEPT !.rescanned =
                   @ \/ (st0.startingPosition < position /\ st0.startingPosition < length)]
        s == ScanLine(st.buffer, position, st.startingPosition,
                      [lineLength |-> -1, fieldLength |-> st.startingFieldLength,
                       discardTrailingNewline |-> FALSE])
    IN  IF s.lineLength < 0
        THEN [st |-> [st EXCEPT !.startingPosition = length - position,
                                !.startingFieldLength = s.fieldLength],
              position |-> position]
        ELSE FeedLoop(parseEventStreamLine(
                          [st EXCEPT !.startingPosition = 0, !.startingFieldLength = -1],
                          position, s.fieldLength, s.lineLength),
                      position + s.lineLength + 1,
                      s.discardTrailingNewline)

\* feed(chunk) with the unconsumed rest of the buffer dropped: the chunk alone
\* is scanned
feedChunkAlone(st, chunk) ==
    LET b1 == chunk
        b2 == IF st.isFirstChunk /\ hasBom(b1) THEN SliceFrom(b1, Len(BOM)) ELSE b1
        r == FeedLoop([st EXCEPT !.buffer = b2, !.isFirstChunk = FALSE], 0, FALSE)
    IN  IF r.position = Len(b2) THEN [r.st EXCEPT !.buffer = <<>>]
        ELSE IF r.position > 0 THEN [r.st EXCEPT !.buffer = SliceFrom(b2, r.position)]
        ELSE r.st

\* feed(chunk)
feed(st, chunk) ==
    LET b1 == IF st.buffer # <<>> THEN st.buffer \o chunk ELSE chunk
        b2 == IF st.isFirstChunk /\ hasBom(b1) THEN SliceFrom(b1, Len(BOM)) ELSE b1
        r == FeedLoop([st EXCEPT !.buffer = b2, !.isFirstChunk = FALSE], 0, FALSE)
    IN  IF r.position = Len(b2) THEN [r.st EXCEPT !.buffer = <<>>]
        ELSE IF r.position > 0 THEN [r.st EXCEPT !.buffer = SliceFrom(b2, r.position)]
        ELSE r.st


(***************************************************************************)
(* SpecParser: a text is delivered to one createParser2 instance in        *)
(* consecutive chunks cut at arbitrary offsets.                            *)
(***************************************************************************)
\* the most lines a delivered text holds
MaxLines == 3

LineBodies ==
    { <<>>,
      <<"d", "a", "t", "a", ":", "x">>,
      <<"d", "a", "t", "a", ":", " ", "y">>,
      <<"i", "d", ":", "1">>,
      <<"e", "v", "e", "n", "t", ":", "e">> }
Terminators == { <<LF>>, <<CR>>, <<CR, LF>> }
Lines == { b \o t : b \in LineBodies, t \in Terminators }

RECURSIVE TextsOf(_)
TextsOf(n) ==
    IF n = 0 THEN { <<>> }
    ELSE LET prev == TextsOf(n - 1) IN prev \cup { t \o l : t \in prev, l \in Lines }
\* every text of at most MaxLines lines, and every shorter one after a BOM
Texts == TextsOf(MaxLines) \cup { BOM \o t : t \in TextsOf(MaxLines - 1) }


\* the transport delivers the next k characters and the consumer feeds them
FeedChunk ==
    \E k \in 1..Len(rest) :
        /\ parser' = feed(parser, SubSeq(rest, 1, k))
        /\ rest' = SubSeq(rest, k + 1, Len(rest))
        /\ text' = text
        /\ chunked' = ~parser.isFirstChunk
        /\ UNCHANGED parserFrame

(***************************************************************************)
(* SpecDataLine: the text is one data line and one blank line, delivered   *)
(* in chunks cut at arbitrary offsets, those inside the value included.    *)
(***************************************************************************)
\* the longest value of the data line
MaxValue == 3
ValueChars == {"x", ":", " "}
RECURSIVE ValuesOf(_)
ValuesOf(n) ==
    IF n = 0 THEN { <<>> }
    ELSE LET prev == ValuesOf(n - 1) IN prev \cup { Append(v, c) : v \in prev, c \in ValueChars }
\* the two line ends of such a text; CR then LF would be one line end
LineEndPairs ==
    { p \in Terminators \X Terminators : ~(p[1] = <<CR>> /\ Head(p[2]) = LF) }
DataLineTexts ==
    { S_data \o <<":">> \o v \o p[1] \o p[2] :
        v \in ValuesOf(MaxValue) \ { <<>> }, p \in LineEndPairs }

\* the events (type "event") of an onParse log
RECURSIVE EventsOf(_)
EventsOf(log) ==
    IF log = <<>> THEN <<>>
    ELSE (IF Head(log).type = "event" THEN <<Head(log)>> ELSE <<>>) \o EventsOf(Tail(log))

\* what one feed call with the whole text makes a fresh parser emit
FeedWhole(t) == EventsOf(feed(reset, t).out)

(***************************************************************************)
(* The byte stream in front of the parser                                  *)
(* The transport yields Uint8Array chunks; each is decoded on its own by   *)
(* new TextDecoder().decode(chunk) and the string is fed to the parser.    *)
(* Bytes below 0x80 are written as the character they encode; the one      *)
(* multi-byte character of the model is U+00E9, encoded as C3 A9; U+FFFD   *)
(* is what the decoder emits for a malformed or truncated sequence.        *)
(***************************************************************************)
\* new TextDecoder().decode(bytes): UTF-8, not fatal, no stream option, so
\* the decoder is flushed at the end of the chunk
RECURSIVE TextDecoderDecode(_)
TextDecoderDecode(bytes) ==
    IF bytes = <<>> THEN <<>>
    ELSE IF Head(bytes) = "C3"
         THEN IF Len(bytes) >= 2 /\ bytes[2] = "A9"
              THEN <<"U+00E9">> \o TextDecoderDecode(Tail(Tail(bytes)))
              ELSE <<"U+FFFD">> \o TextDecoderDecode(Tail(bytes))
         ELSE IF Head(bytes) = "A9"
              THEN <<"U+FFFD">> \o TextDecoderDecode(Tail(bytes))
              ELSE <<Head(bytes)>> \o TextDecoderDecode(Tail(bytes))

\* the encodings of the values of at most n characters, each x or U+00E9
RECURSIVE EncodedValuesOf(_)
EncodedValuesOf(n) ==
    IF n = 0 THEN { <<>> }
    ELSE LET prev == EncodedValuesOf(n - 1) IN
         prev \cup { v \o c : v \in prev, c \in { <<"x">>, <<"C3", "A9">> } }
\* the bytes of one data line of at most MaxValue characters and the blank
\* line after it
ByteTexts ==
    { S_data \o <<":">> \o v \o <<LF, LF>> : v \in EncodedValuesOf(MaxValue) \ { <<>> } }

\* the lines the parser is given one at a time: blank, data with a value
\* after a space, with an empty value and without a colon, id
\* with a value and with a value that holds NUL, and event
MaxFed == 5
FieldLines ==
    { <<>>,
      <<"d", "a", "t", "a", ":", " ", "x">>,
      <<"d", "a", "t", "a", ":">>,
      <<"d", "a", "t", "a">>,
      <<"i", "d", ":", "1">>,
      <<"i", "d", ":", "2">>,
      <<"i", "d", ":", "3", NUL>>,
      <<"e", "v", "e", "n", "t", ":", "e">> }

\* one feed call with one whole line and its line end
ReceiveLine ==
    /\ Len(text) < MaxFed
    /\ \E l \in FieldLines, t \in Terminators :
         /\ parser' = feed(parser, l \o t)
         /\ text' = Append(text, l)
    /\ UNCHANGED <<rest, chunked>>
    /\ UNCHANGED parserFrame

\* for await (const chunk of streamAsyncIterable2(res.body)): the transport
\* delivers the next k bytes, they are decoded and fed
FeedBytes ==
    \E k \in 1..Len(rest) :
        /\ parser' = feed(parser, TextDecoderDecode(SubSeq(rest, 1, k)))
        /\ rest' = SubSeq(rest, k + 1, Len(rest))
        /\ text' = text
        /\ chunked' = ~parser.isFirstChunk
        /\ UNCHANGED parserFrame

(***************************************************************************)
(* Promises and their values                                               *)
(***************************************************************************)
\* { response, conversationId, messageId }
Snapshot(c, m, r) == [conversationId |-> c, messageId |-> m, response |-> r]
NoSnap == Snapshot("", "", "")
\* what a promise settles with: a snapshot, or an error of some kind; status
\* is the error's statusCode, 0 when it carries none (undefined)
Value(kind, status, snap) == [kind |-> kind, status |-> status, snap |-> snap]
ErrorOf(kind) == Value(kind, 0, NoSnap)
NoValue == Value("none", 0, NoSnap)

\* a promise not yet created, and a fresh one
NoPromise == [state |-> "none", value |-> NoValue, hasCancel |-> FALSE]
NewPromise(hasCancel) == [state |-> "pending", value |-> NoValue, hasCancel |-> hasCancel]
\* resolve(v) / reject(v) of a promise p: only the first settlement counts
Resolve(p, v) == IF p.state = "pending" THEN [p EXCEPT !.state = "fulfilled", !.value = v] ELSE p
Reject(p, v) == IF p.state = "pending" THEN [p EXCEPT !.state = "rejected", !.value = v] ELSE p
Settle(p, state, v) == IF state = "fulfilled" THEN Resolve(p, v) ELSE Reject(p, v)

(***************************************************************************)
(* pTimeout2(promise, options)                                             *)
(*   op       the wrapped promise, with hasCancel: typeof promise.cancel   *)
(*            === "function"                                               *)
(*   wrapper  cancelablePromise, with the options it was called with;      *)
(*            mode says what the executor attached:                        *)
(*            "none" not called, "invalid" the executor threw, "follow"    *)
(*            resolve(promise) of the infinite case, "timed" timer and     *)
(*            async continuation attached                                  *)
(***************************************************************************)
\* Number.POSITIVE_INFINITY
Infinity == 1000000
\* the durations tried: negative, zero, positive finite, infinite
Durations == {-1, 0, 5, Infinity}
Fallbacks == {"none", "returns", "throws"}
\* the message option: absent, a string, or an Error instance
Messages == {"none", "string", "error"}

NotCalled == [state |-> "none", value |-> NoValue, mode |-> "none",
              fallback |-> "none", message |-> "none", listens |-> FALSE]

\* Math.sign(milliseconds) !== 1
NotPositive(milliseconds) == milliseconds <= 0

\* clearTimeout(timer)
ClearTimer(t) == IF t = "armed" THEN "cleared" ELSE t

\* the body of pTimeout2 up to its return, with the continuation of an
\* already settled promise (a microtask, which runs before any timer)
PTimeout2(milliseconds, fallback, message, withSignal) ==
    /\ wrapper.state = "none"
    /\ op.state # "none"
    /\ IF NotPositive(milliseconds)
       THEN /\ wrapper' = [state |-> "rejected", value |-> ErrorOf("TypeError"),
                           mode |-> "invalid", fallback |-> fallback,
                           message |-> message, listens |-> FALSE]
            /\ timer' = timer
       ELSE IF milliseconds = Infinity
       THEN /\ wrapper' = [state |-> op.state, value |-> op.value,
                           mode |-> "follow", fallback |-> fallback,
                           message |-> message, listens |-> FALSE]
            /\ timer' = timer
       ELSE LET w0 == [state |-> "pending", value |-> NoValue, mode |-> "timed",
                       fallback |-> fallback, message |-> message,
                       listens |-> withSignal /\ signal # "none"]
                w1 == IF w0.listens /\ signal = "aborted"
                      THEN Reject(w0, ErrorOf("AbortError")) ELSE w0
            IN  IF op.state = "pending"
                THEN wrapper' = w1 /\ timer' = "armed"
                ELSE wrapper' = Settle(w1, op.state, op.value) /\ timer' = "cleared"
    /\ UNCHANGED <<op, signal, cancelCalls>>

\* the wrapped promise settles, with the continuation of pTimeout2 lacking
\* its finally clause: the timer stays armed
SettleOpKeepsTimer(state, v) ==
    /\ op.state = "pending"
    /\ op' = [op EXCEPT !.state = state, !.value = v]
    /\ wrapper' = IF wrapper.mode \in {"timed", "follow"} THEN Settle(wrapper, state, v)
                  ELSE wrapper
    /\ timer' = timer
    /\ UNCHANGED <<signal, cancelCalls>>

\* the wrapped promise settles; pTimeout2's continuation (resolve(await
\* promise) / reject(error), finally clearTimeout) runs in the same turn
SettleOp(state, v) ==
    /\ op.state = "pending"
    /\ op' = [op EXCEPT !.state = state, !.value = v]
    /\ wrapper' = IF wrapper.mode \in {"timed", "follow"} THEN Settle(wrapper, state, v)
                  ELSE wrapper
    /\ timer' = IF wrapper.mode = "timed" THEN ClearTimer(timer) ELSE timer
    /\ UNCHANGED <<signal, cancelCalls>>

\* message instanceof Error ? message : new TimeoutError2(errorMessage)
TimeoutErrorOf(message) == ErrorOf(IF message = "error" THEN "MessageError" ELSE "TimeoutError")

\* the setTimeout callback without the call of promise.cancel()
TimerFireNoCancel ==
    /\ timer = "armed"
    /\ timer' = "fired"
    /\ wrapper' = IF wrapper.fallback = "returns"
                  THEN Resolve(wrapper, Value("fallback", 0, NoSnap))
                  ELSE IF wrapper.fallback = "throws"
                  THEN Reject(wrapper, ErrorOf("FallbackError"))
                  ELSE Reject(wrapper, TimeoutErrorOf(wrapper.message))
    /\ UNCHANGED <<op, signal, cancelCalls>>

\* the setTimeout callback
TimerFire ==
    /\ timer = "armed"
    /\ timer' = "fired"
    /\ IF wrapper.fallback # "none"
       THEN /\ wrapper' = IF wrapper.fallback = "returns"
                          THEN Resolve(wrapper, Value("fallback", 0, NoSnap))
                          ELSE Reject(wrapper, ErrorOf("FallbackError"))
            /\ cancelCalls' = cancelCalls
       ELSE /\ cancelCalls' = IF op.hasCancel THEN cancelCalls + 1 ELSE cancelCalls
            /\ wrapper' = Reject(wrapper, TimeoutErrorOf(wrapper.message))
    /\ UNCHANGED <<op, signal>>

\* the external signal's "abort" event with no listener of pTimeout2
SignalAbortNoListener ==
    /\ signal = "idle"
    /\ signal' = "aborted"
    /\ UNCHANGED <<op, wrapper, timer, cancelCalls>>

\* the external signal's "abort" event, and pTimeout2's listener for it
SignalAbort ==
    /\ signal = "idle"
    /\ signal' = "aborted"
    /\ wrapper' = IF wrapper.listens THEN Reject(wrapper, ErrorOf("AbortError")) ELSE wrapper
    /\ UNCHANGED <<op, timer, cancelCalls>>

\* cancelablePromise.clear()
Clear ==
    /\ wrapper.state # "none"
    /\ timer = "armed"
    /\ timer' = "cleared"
    /\ UNCHANGED <<op, wrapper, signal, cancelCalls>>

(***************************************************************************)
(* The message exchange: ChatGPTAPI.sendMessage (variant "api") and        *)
(* browserPostEventStream (variant "browser")                              *)
(***************************************************************************)
\* the most events one stream delivers
MaxEvents == 3

\* the data of a decoded event: the [DONE] sentinel, text JSON.parse rejects,
\* the JSON text null, or an object with conversation_id, message.id and
\* message.content.parts[0], each "" when absent
Event(kind, conv, msg, txt) == [kind |-> kind, conv |-> conv, msg |-> msg, text |-> txt]
DONE == Event("done", "", "", "")
BAD == Event("bad", "", "", "")
NULLJSON == Event("null", "", "", "")
EventData ==
    { DONE, BAD, NULLJSON,
      Event("payload", "c2", "m2", "t1"),
      Event("payload", "", "", "t2"),
      Event("payload", "c3", "", "") }

\* timeoutMs: not given (undefined), or one of Durations
ExchangeOptions ==
    [variant : {"api", "browser"},
     timeoutGiven : BOOLEAN,
     timeoutMs : Durations,
     onProgress : BOOLEAN,
     abortSignal : BOOLEAN,
     markdown : BOOLEAN,
     conversationId : {"", "c1"}]
NoOptions == [variant |-> "none", timeoutGiven |-> FALSE, timeoutMs |-> 0,
              onProgress |-> FALSE, abortSignal |-> FALSE, markdown |-> TRUE,
              conversationId |-> ""]

\* if (timeoutMs)
HasTimeout == opts.timeoutGiven /\ opts.timeoutMs # 0
\* abortController of the call: the browser variant makes one whenever
\* timeoutMs is truthy, the api variant only if no abortSignal was passed
HasAbortController ==
    HasTimeout /\ (opts.variant = "browser" \/ ~opts.abortSignal)

XchIdle == [pc |-> "idle", conversationId |-> "", messageId |-> "", response |-> "",
            stream |-> "none", fetchCalls |-> 0, early |-> NoValue, aborted |-> FALSE]

CurrentSnapshot == Snapshot(xch.conversationId, xch.messageId, xch.response)

\* resolve(v) / reject(v) of responseP by the exchange's callbacks
TrySettleOp(state, v) ==
    IF op.state = "pending" THEN SettleOp(state, v) ELSE UNCHANGED timeoutVars

\* ChatGPTAPI.sendMessage up to the creation of responseP: refreshSession,
\* then fetchSSE issues the request
ApiStart ==
    /\ opts.variant = "api" /\ xch.pc = "start"
    /\ \E refreshed \in BOOLEAN :
         IF refreshed
         THEN /\ xch' = [xch EXCEPT !.pc = IF HasTimeout THEN "wrap" ELSE "fetching",
                                    !.fetchCalls = @ + 1]
              /\ op' = NewPromise(HasAbortController)
         ELSE /\ xch' = [xch EXCEPT !.pc = "failed", !.early = ErrorOf("ChatGPTError")]
              /\ op' = op
    /\ UNCHANGED <<wrapper, timer, signal, cancelCalls, progress, delivered, opts>>
    /\ UNCHANGED exchangeFrame

\* browserPostEventStream up to "await fetch"
BrowserStart ==
    /\ opts.variant = "browser" /\ xch.pc = "start"
    /\ xch' = [xch EXCEPT !.pc = "fetching", !.fetchCalls = @ + 1]
    /\ UNCHANGED <<timeoutVars, progress, delivered>>
    /\ UNCHANGED exchangeFrame

\* pTimeout(responseP, {milliseconds: timeoutMs, ...}): no fallback, no signal
StartDeadline ==
    /\ xch.pc = "wrap"
    /\ PTimeout2(opts.timeoutMs, "none", "string", FALSE)
    /\ xch' = [xch EXCEPT !.pc = IF opts.variant = "api" THEN "fetching" ELSE "streaming"]
    /\ UNCHANGED <<opts, progress, delivered>>
    /\ UNCHANGED exchangeFrame

\* the answer to the request: fetch throws, or returns a status
FetchResponse ==
    /\ xch.pc = "fetching" /\ ~xch.aborted
    /\ \E r \in {0, 200, 401, 403, 500} :
         LET err == IF r = 0 THEN ErrorOf("FetchError") ELSE Value("ChatGPTError", r, NoSnap)
         IN  IF r = 200
             THEN /\ xch' = [xch EXCEPT !.stream = "open",
                                        !.pc = IF opts.variant = "browser" /\ HasTimeout
                                               THEN "wrap" ELSE "streaming"]
                  /\ IF opts.variant = "browser"
                     THEN op' = NewPromise(HasAbortController)
                          /\ UNCHANGED <<wrapper, timer, signal, cancelCalls>>
                     ELSE UNCHANGED timeoutVars
             ELSE IF opts.variant = "browser"
             THEN /\ xch' = [xch EXCEPT !.pc = "failed", !.early = err]
                  /\ UNCHANGED timeoutVars
             ELSE /\ xch' = [xch EXCEPT !.pc = "closed"]
                  /\ TrySettleOp("rejected", err)
    /\ UNCHANGED <<opts, progress, delivered>>
    /\ UNCHANGED exchangeFrame

\* the snapshot after onMessage has read a parsed payload, with the response
\* text appended to instead of replaced
UpdatedAppend(ev) ==
    [xch EXCEPT !.conversationId = IF ev.conv # "" THEN ev.conv ELSE @,
                !.messageId = IF ev.msg # "" THEN ev.msg ELSE @,
                !.response = IF ev.text # "" THEN @ \o ev.text ELSE @]

\* the snapshot after onMessage has read a parsed payload, with the ids
\* assigned from the payload whether or not it holds them
UpdatedOverwriteIds(ev) ==
    [xch EXCEPT !.conversationId = ev.conv,
                !.messageId = ev.msg,
                !.response = IF ev.text # "" THEN ev.text ELSE @]

\* the snapshot after onMessage has read a parsed payload
Updated(ev) ==
    [xch EXCEPT !.conversationId = IF ev.conv # "" THEN ev.conv ELSE @,
                !.messageId = IF ev.msg # "" THEN ev.msg ELSE @,
                !.response = IF ev.text # "" THEN ev.text ELSE @]
SnapshotOf(x) == Snapshot(x.conversationId, x.messageId, x.response)

\* markdownToText(text): "t1" is a text with markup, whose plain form is
\* "p1"; the other texts hold none
MarkdownToText(t) == IF t = "t1" THEN "p1" ELSE t
\* the text ChatGPTAPI.sendMessage stores: converted unless markdown is on
ApiText(t) == IF opts.markdown THEN t ELSE MarkdownToText(t)
\* the snapshot after onMessage of ChatGPTAPI.sendMessage has read a payload
ApiUpdated(ev) == Updated([ev EXCEPT !.text = IF @ # "" THEN ApiText(@) ELSE @])

\* onMessage(data) of ChatGPTAPI.sendMessage without the test for the
\* sentinel: "[DONE]" goes to JSON.parse, which throws
ApiOnMessageNoSentinel(ev) ==
    IF ev.kind \in {"done", "bad"}
    THEN /\ TrySettleOp("rejected", ErrorOf("SyntaxError"))
         /\ UNCHANGED <<xch, progress>>
    ELSE IF ev.kind = "null"
    THEN /\ TrySettleOp("rejected", ErrorOf("TypeError"))
         /\ UNCHANGED <<xch, progress>>
    ELSE /\ xch' = ApiUpdated(ev)
         /\ progress' = IF ev.text # "" /\ opts.onProgress
                        THEN Append(progress, SnapshotOf(ApiUpdated(ev))) ELSE progress
         /\ UNCHANGED timeoutVars

\* onMessage(data) of ChatGPTAPI.sendMessage
ApiOnMessage(ev) ==
    IF ev.kind = "done"
    THEN /\ TrySettleOp("fulfilled", Value("snapshot", 0, CurrentSnapshot))
         /\ UNCHANGED <<xch, progress>>
    ELSE IF ev.kind = "bad"
    THEN \* JSON.parse throws; the catch rejects
         /\ TrySettleOp("rejected", ErrorOf("SyntaxError"))
         /\ UNCHANGED <<xch, progress>>
    ELSE IF ev.kind = "null"
    THEN \* null.conversation_id throws; the catch rejects
         /\ TrySettleOp("rejected", ErrorOf("TypeError"))
         /\ UNCHANGED <<xch, progress>>
    ELSE /\ xch' = ApiUpdated(ev)
         /\ progress' = IF ev.text # "" /\ opts.onProgress
                        THEN Append(progress, SnapshotOf(ApiUpdated(ev))) ELSE progress
         /\ UNCHANGED timeoutVars

\* onMessage(data) of browserPostEventStream; opts.onProgress stands for
\* window.ChatGPTAPIBrowserOnProgress being defined
BrowserOnMessage(ev) ==
    IF ev.kind = "done"
    THEN /\ TrySettleOp("fulfilled", Value("snapshot", 0, CurrentSnapshot))
         /\ UNCHANGED <<xch, progress>>
    ELSE IF ev.kind \in {"bad", "null"}
    THEN UNCHANGED <<timeoutVars, xch, progress>>
    ELSE /\ xch' = Updated(ev)
         /\ progress' = IF ev.text # "" /\ opts.onProgress
                        THEN Append(progress, SnapshotOf(Updated(ev))) ELSE progress
         /\ UNCHANGED timeoutVars

\* a chunk arrives, the parser emits an event, onMessage handles its data
Deliver ==
    /\ xch.pc = "streaming" /\ xch.stream = "open" /\ ~xch.aborted
    /\ Len(delivered) < MaxEvents
    /\ \E ev \in EventData :
         /\ delivered' = Append(delivered, ev)
         /\ IF opts.variant = "api" THEN ApiOnMessage(ev) ELSE BrowserOnMessage(ev)
    /\ opts' = opts
    /\ UNCHANGED exchangeFrame

\* reader.read() reports done: the for await loop ends, and nothing follows it
StreamEnd ==
    /\ xch.pc = "streaming" /\ xch.stream = "open" /\ ~xch.aborted
    /\ xch' = [xch EXCEPT !.stream = "ended"]
    /\ UNCHANGED <<timeoutVars, progress, delivered>>
    /\ UNCHANGED exchangeFrame

\* reader.read() rejects. fetchSSE's promise rejects and the .catch of
\* ChatGPTAPI.sendMessage settles responseP; in browserPostEventStream the
\* async executor's own promise rejects, which nothing observes
StreamError ==
    /\ xch.pc = "streaming" /\ xch.stream = "open" /\ ~xch.aborted
    /\ \E terminated \in BOOLEAN :
         /\ xch' = [xch EXCEPT !.stream = IF terminated THEN "terminated" ELSE "errored"]
         /\ IF opts.variant = "api"
            THEN IF xch.response # "" /\ terminated
                 THEN TrySettleOp("fulfilled", Value("snapshot", 0, CurrentSnapshot))
                 ELSE TrySettleOp("rejected", ErrorOf(IF terminated THEN "Terminated" ELSE "StreamError"))
            ELSE UNCHANGED timeoutVars
    /\ UNCHANGED <<opts, progress, delivered>>
    /\ UNCHANGED exchangeFrame

\* the deadline elapses; promise.cancel, when set, is abortController.abort()
ExchangeTimerFire ==
    /\ TimerFire
    /\ xch' = [xch EXCEPT !.aborted = @ \/ op.hasCancel]
    /\ UNCHANGED <<opts, progress, delivered>>
    /\ UNCHANGED exchangeFrame

\* the caller aborts the abortSignal it passed (api variant): pTimeout was not
\* given the signal, fetch was
CallerAbort ==
    /\ xch.pc \in {"fetching", "streaming"}
    /\ SignalAbort
    /\ xch' = [xch EXCEPT !.aborted = TRUE]
    /\ UNCHANGED <<opts, progress, delivered>>
    /\ UNCHANGED exchangeFrame

\* the aborted request fails: fetch or reader.read() rejects with an AbortError
AbortObserved ==
    /\ xch.aborted /\ xch.pc \in {"fetching", "streaming"}
    /\ xch.stream \in {"none", "open"}
    /\ xch' = [xch EXCEPT !.stream = "aborted", !.pc = "closed"]
    /\ IF opts.variant = "api" THEN TrySettleOp("rejected", ErrorOf("AbortError"))
       ELSE UNCHANGED timeoutVars
    /\ UNCHANGED <<opts, progress, delivered>>
    /\ UNCHANGED exchangeFrame

\* the promise whose settlement the call returns: the wrapper when timeoutMs
\* is truthy, else responseP
Awaited == IF HasTimeout THEN wrapper ELSE op
\* "pending", "snapshot" or "error": how the call has settled. The browser
\* variant returns {error} where the api variant rejects
Outcome ==
    IF xch.early.kind # "none" THEN "error"
    ELSE IF Awaited.state = "fulfilled" THEN "snapshot"
    ELSE IF Awaited.state = "rejected" THEN "error"
    ELSE "pending"
\* the snapshot a settled call hands back; ChatGPTAPI.sendMessage resolves
\* with the result object itself, which later events still write to
Returned == IF opts.variant = "api" THEN CurrentSnapshot ELSE Awaited.value.snap

(***************************************************************************)
(* ChatGPTAPIBrowser.sendMessage                                           *)
(* Call c sends the message with id c. One transport attempt is one        *)
(* page.evaluate(browserPostEventStream, ...): it throws ("throw"), or     *)
(* returns a snapshot ("ok") or {error} with statusCode 401, 403, 500 or   *)
(* none ("e401", "e403", "e500", "e0").                                    *)
(***************************************************************************)
\* the calls in flight at once
NumCalls == 2
Calls == 1..NumCalls

TransportOutcomes == {"ok", "throw", "e401", "e403", "e500", "e0"}
StatusOf(o) == IF o = "e401" THEN 401 ELSE IF o = "e403" THEN 403
               ELSE IF o = "e500" THEN 500 ELSE 0

CallIdle == [pc |-> "idle", numTries |-> 0, is401 |-> FALSE, result |-> "undefined",
             outcome |-> "pending", status |-> 0, onProgress |-> FALSE]

NoCalls == [c \in Calls |-> CallIdle]
NoSession == [authed |-> FALSE, isRefreshing |-> FALSE]
NoTrace == [c \in Calls |-> <<>>]

\* cleanup()
cleanup(c) == handlers \ {c}


\* the callback a partial response of call c invoked: the one registered by
\* call c ("own"), the one registered by another call ("other"), or none
\* ("dropped"); h is the key the callback was found under, 0 for not found
Invoked(c, h) == IF h = 0 THEN "dropped" ELSE IF h = c THEN "own" ELSE "other"

\* ChatGPTAPIBrowserOnProgress(partialResponse) with the callback taken from
\* any registered entry instead of the entry under origMessageId
ProgressAnyHandler(c) ==
    /\ calls[c].pc = "evaluate"
    /\ \E h \in handlers \cup {0} :
         /\ (h = 0) = (handlers = {})
         /\ notified' = Invoked(c, h)
    /\ UNCHANGED <<parserVars, timeoutVars, exchangeVars, browserVars, cacheVars, refreshSeen>>

\* ChatGPTAPIBrowserOnProgress(partialResponse): the page, running the
\* request of call c, reports a partial response with origMessageId c
Progress(c) ==
    /\ calls[c].pc = "evaluate"
    /\ notified' = Invoked(c, IF c \in handlers THEN c ELSE 0)
    /\ UNCHANGED <<parserVars, timeoutVars, exchangeVars, browserVars, cacheVars, refreshSeen>>

\* a call that has ended: it returned a snapshot ("snapshot"), returned
\* nothing ("undefined") or threw an error with this statusCode ("error")
Ended(cl, outcome, status) == [cl EXCEPT !.pc = "done", !.outcome = outcome, !.status = status]

\* sendMessage up to the do loop
Send(c) ==
    /\ calls[c].pc = "idle"
    /\ \E onProgress \in BOOLEAN :
         /\ calls' = [calls EXCEPT ![c].pc = "top", ![c].onProgress = onProgress]
         /\ handlers' = IF onProgress THEN handlers \cup {c} ELSE handlers
    /\ UNCHANGED <<session, trace>>
    /\ UNCHANGED browserFrame

\* if (is401 || !await this.getIsAuthenticated())
LoopTop(c) ==
    /\ calls[c].pc = "top"
    /\ IF calls[c].is401 \/ ~session.authed
       THEN /\ calls' = [calls EXCEPT ![c].pc = "reset"]
            /\ trace' = [trace EXCEPT ![c] = Append(@, "reset")]
       ELSE /\ calls' = [calls EXCEPT ![c].pc = "evaluate"]
            /\ trace' = trace
    /\ UNCHANGED <<handlers, session>>
    /\ UNCHANGED browserFrame

\* resetSession() returns and the session is asked again, with the
\* cleanup() before the throw of "Not signed in" left out
ResetDoneKeepsHandler(c) ==
    /\ calls[c].pc = "reset"
    /\ \E signedIn \in BOOLEAN :
         /\ session' = [session EXCEPT !.authed = signedIn]
         /\ IF signedIn
            THEN calls' = [calls EXCEPT ![c].pc = "evaluate"] /\ handlers' = handlers
            ELSE calls' = [calls EXCEPT ![c] = Ended(@, "error", 401)] /\ handlers' = handlers
    /\ trace' = trace
    /\ UNCHANGED browserFrame

\* resetSession() returns, whether or not it managed to sign in again, and
\* getIsAuthenticated() is asked once more
ResetDone(c) ==
    /\ calls[c].pc = "reset"
    /\ \E signedIn \in BOOLEAN :
         /\ session' = [session EXCEPT !.authed = signedIn]
         /\ IF signedIn
            THEN calls' = [calls EXCEPT ![c].pc = "evaluate"] /\ handlers' = handlers
            ELSE calls' = [calls EXCEPT ![c] = Ended(@, "error", 401)] /\ handlers' = cleanup(c)
    /\ trace' = trace
    /\ UNCHANGED browserFrame

\* what follows "continue": the loop goes on while (!result); when it ends,
\* cleanup() runs and the function returns nothing
Continue(cl) ==
    IF cl.result \in {"undefined", "null"}
    THEN [call |-> [cl EXCEPT !.pc = "top"], clean |-> FALSE]
    ELSE [call |-> Ended(cl, "undefined", 0), clean |-> TRUE]

\* the handling of a transport attempt's outcome with the test
\* "statusCode !== 403" left out: every status but 401 is handled as 403 is
AfterAttemptRefreshAll(cl, o) ==
    LET n == cl.numTries + 1 IN
    IF o = "throw"
    THEN IF n >= 2
         THEN [call |-> Ended([cl EXCEPT !.numTries = n], "error", 0), clean |-> TRUE]
         ELSE Continue([cl EXCEPT !.numTries = n])
    ELSE IF o = "ok"
    THEN [call |-> Ended([cl EXCEPT !.result = "snapshot"], "snapshot", 0), clean |-> TRUE]
    ELSE LET e == [cl EXCEPT !.numTries = n, !.result = "error", !.status = StatusOf(o)] IN
         IF StatusOf(o) = 401
         THEN IF n >= 2
              THEN [call |-> Ended([e EXCEPT !.is401 = TRUE], "error", 401), clean |-> TRUE]
              ELSE Continue([e EXCEPT !.is401 = TRUE])
         ELSE [call |-> [e EXCEPT !.pc = "refresh"], clean |-> FALSE]

\* the handling of a transport attempt's outcome with a thrown attempt left
\* uncounted: numTries counts only the attempts that returned {error}
AfterAttemptThrowUncounted(cl, o) ==
    LET n == cl.numTries + 1 IN
    IF o = "throw"
    THEN Continue(cl)
    ELSE IF o = "ok"
    THEN [call |-> Ended([cl EXCEPT !.result = "snapshot"], "snapshot", 0), clean |-> TRUE]
    ELSE LET e == [cl EXCEPT !.numTries = n, !.result = "error", !.status = StatusOf(o)] IN
         IF StatusOf(o) = 401
         THEN IF n >= 2
              THEN [call |-> Ended([e EXCEPT !.is401 = TRUE], "error", 401), clean |-> TRUE]
              ELSE Continue([e EXCEPT !.is401 = TRUE])
         ELSE IF StatusOf(o) # 403
         THEN [call |-> Ended(e, "error", StatusOf(o)), clean |-> FALSE]
         ELSE [call |-> [e EXCEPT !.pc = "refresh"], clean |-> FALSE]

\* the handling of a transport attempt's outcome o by call record cl: the
\* new call record, and whether cleanup() ran
AfterAttempt(cl, o) ==
    LET n == cl.numTries + 1 IN
    IF o = "throw"
    THEN IF n >= 2
         THEN [call |-> Ended([cl EXCEPT !.numTries = n], "error", 0), clean |-> TRUE]
         ELSE Continue([cl EXCEPT !.numTries = n])
    ELSE IF o = "ok"
    THEN [call |-> Ended([cl EXCEPT !.result = "snapshot"], "snapshot", 0), clean |-> TRUE]
    ELSE LET e == [cl EXCEPT !.numTries = n, !.result = "error", !.status = StatusOf(o)] IN
         IF StatusOf(o) = 401
         THEN IF n >= 2
              THEN [call |-> Ended([e EXCEPT !.is401 = TRUE], "error", 401), clean |-> TRUE]
              ELSE Continue([e EXCEPT !.is401 = TRUE])
         ELSE IF StatusOf(o) # 403
         THEN [call |-> Ended(e, "error", StatusOf(o)), clean |-> FALSE]
         ELSE [call |-> [e EXCEPT !.pc = "refresh"], clean |-> FALSE]

\* one transport attempt and the handling of what it gives
EvaluateStep(c) ==
    /\ calls[c].pc = "evaluate"
    /\ \E o \in TransportOutcomes :
         LET r == AfterAttempt(calls[c], o) IN
         /\ trace' = [trace EXCEPT ![c] = Append(@, o)]
         /\ calls' = [calls EXCEPT ![c] = r.call]
         /\ handlers' = IF r.clean THEN cleanup(c) ELSE handlers
    /\ session' = session

Evaluate(c) == EvaluateStep(c) /\ UNCHANGED browserFrame

\* refreshSession() with the test of _isRefreshing at its head left out:
\* every caller reloads the page
RefreshBeginStepAlways(c) ==
    /\ calls[c].pc = "refresh"
    /\ trace' = [trace EXCEPT ![c] = Append(@, "refresh")]
    /\ calls' = [calls EXCEPT ![c].pc = "reloading"]
    /\ session' = [session EXCEPT !.isRefreshing = TRUE]
    /\ handlers' = handlers

\* refreshSession(): returns at once when a refresh is in progress
RefreshBeginStep(c) ==
    /\ calls[c].pc = "refresh"
    /\ trace' = [trace EXCEPT ![c] = Append(@, "refresh")]
    /\ IF session.isRefreshing
       THEN calls' = [calls EXCEPT ![c].pc = "refreshed"] /\ session' = session
       ELSE /\ calls' = [calls EXCEPT ![c].pc = "reloading"]
            /\ session' = [session EXCEPT !.isRefreshing = TRUE]
    /\ handlers' = handlers

RefreshBegin(c) == RefreshBeginStep(c) /\ UNCHANGED browserFrame

\* the reload and the wait for the clearance cookie end, well or badly
RefreshEndStep(c) ==
    /\ calls[c].pc = "reloading"
    /\ session' = [session EXCEPT !.isRefreshing = FALSE]
    /\ calls' = [calls EXCEPT ![c].pc = "refreshed"]
    /\ UNCHANGED <<handlers, trace>>

RefreshEnd(c) == RefreshEndStep(c) /\ UNCHANGED browserFrame

\* a page reload begins: it began after the latest attempt of every call
\* that is between an attempt answered with 403 and what follows it
ReloadBegun(cs, seen) ==
    [d \in Calls |-> IF /\ cs[d].status = 403 /\ cs[d].pc \notin {"idle", "done"}
                         /\ seen[d] = "none"
                      THEN "started" ELSE seen[d]]
\* the page reload ends: for the calls that saw it begin, it is complete
ReloadEnded(seen) ==
    [d \in Calls |-> IF seen[d] = "started" THEN "completed" ELSE seen[d]]

\* the three steps above with their effect on refreshSeen
EvaluateSeen(c) ==
    /\ EvaluateStep(c)
    /\ refreshSeen' = [refreshSeen EXCEPT ![c] = "none"]
    /\ UNCHANGED <<parserVars, timeoutVars, exchangeVars, cacheVars, notified>>

RefreshBeginSeen(c) ==
    /\ RefreshBeginStep(c)
    /\ refreshSeen' = IF session.isRefreshing THEN refreshSeen
                      ELSE ReloadBegun(calls', refreshSeen)
    /\ UNCHANGED <<parserVars, timeoutVars, exchangeVars, cacheVars, notified>>

RefreshEndSeen(c) ==
    /\ RefreshEndStep(c)
    /\ refreshSeen' = ReloadEnded(refreshSeen)
    /\ UNCHANGED <<parserVars, timeoutVars, exchangeVars, cacheVars, notified>>

\* after "await this.refreshSession()" with the throw of the second try left
\* out: result = null and continue, whatever numTries is
AfterRefreshNoThrow(c) ==
    /\ calls[c].pc = "refreshed"
    /\ calls' = [calls EXCEPT ![c] = Continue([@ EXCEPT !.result = "null"]).call]
    /\ UNCHANGED <<handlers, session, trace>>
    /\ UNCHANGED browserFrame

\* after "await this.refreshSession()": throw on the second try, else
\* result = null and continue
AfterRefresh(c) ==
    /\ calls[c].pc = "refreshed"
    /\ IF calls[c].numTries >= 2
       THEN calls' = [calls EXCEPT ![c] = Ended(@, "error", 403)]
       ELSE calls' = [calls EXCEPT ![c] = Continue([@ EXCEPT !.result = "null"]).call]
    /\ UNCHANGED <<handlers, session, trace>>
    /\ UNCHANGED browserFrame

(***************************************************************************)
(* ChatGPTAPI's access token cache and refreshSession                      *)
(* _accessTokenCache is an ExpiryMap, a package the bundle imports: its    *)
(* get, set and delete follow the description of the credential cache.     *)
(* Time is counted in units of which accessTokenTTL is a few.              *)
(***************************************************************************)
\* the last instant of the model's clock
MaxTime == 6
\* the constructor's accessTokenTTL, in units of the clock
accessTokenTTL == 2
\* the access tokens the session endpoint hands out; 0 stands for none
\* (undefined)
Tokens == {1, 2}

NoEntry == [has |-> FALSE, value |-> 0, setAt |-> 0, expiry |-> 0]
\* the latest refreshSession call: when it began, whether it sent a request to
\* the session endpoint, whether the answer is outstanding, what it returned
\* (0 for a throw), and whether closeSession ran since it began
NoRefresh == [seq |-> 0, at |-> 0, contacted |-> FALSE, pending |-> FALSE, result |-> 0,
              closed |-> FALSE]

\* _accessTokenCache.set(KEY_ACCESS_TOKEN, value)
CacheSet(value) == [has |-> TRUE, value |-> value, setAt |-> now, expiry |-> now + accessTokenTTL]
\* _accessTokenCache.get(KEY_ACCESS_TOKEN)
CacheGet == IF cache.has /\ now < cache.expiry THEN cache.value ELSE 0
\* _accessTokenCache.delete(KEY_ACCESS_TOKEN)
CacheDelete == NoEntry

\* time passes
Tick ==
    /\ now < MaxTime
    /\ now' = now + 1
    /\ UNCHANGED <<cache, lastRefresh>>
    /\ UNCHANGED cacheFrame

\* refreshSession up to its return of the cached token, with the token read
\* from the entry itself, whatever its age
RefreshStartAnyAge ==
    /\ ~lastRefresh.pending
    /\ LET cachedAccessToken == IF cache.has THEN cache.value ELSE 0 IN
       lastRefresh' = [seq |-> 1 - lastRefresh.seq, at |-> now,
                       contacted |-> cachedAccessToken = 0,
                       pending |-> cachedAccessToken = 0,
                       result |-> cachedAccessToken, closed |-> FALSE]
    /\ UNCHANGED <<now, cache>>
    /\ UNCHANGED cacheFrame

\* refreshSession up to its return of the cached token, or to its request to
\* the session endpoint
RefreshStart ==
    /\ ~lastRefresh.pending
    /\ LET cachedAccessToken == CacheGet IN
       lastRefresh' = [seq |-> 1 - lastRefresh.seq, at |-> now,
                       contacted |-> cachedAccessToken = 0,
                       pending |-> cachedAccessToken = 0,
                       result |-> cachedAccessToken, closed |-> FALSE]
    /\ UNCHANGED <<now, cache>>
    /\ UNCHANGED cacheFrame

\* the session endpoint answers: with an access token, which is cached and
\* returned, or with none or a failure, and refreshSession throws
RefreshFinish ==
    /\ lastRefresh.pending
    /\ \E accessToken \in Tokens \cup {0} :
         /\ lastRefresh' = [lastRefresh EXCEPT !.pending = FALSE, !.result = accessToken]
         /\ cache' = IF accessToken # 0 THEN CacheSet(accessToken) ELSE cache
    /\ now' = now
    /\ UNCHANGED cacheFrame

\* closeSession()
CloseSession ==
    /\ cache' = CacheDelete
    /\ lastRefresh' = [lastRefresh EXCEPT !.closed = TRUE]
    /\ now' = now
    /\ UNCHANGED cacheFrame

(***************************************************************************)
(* Specifications                                                          *)
(***************************************************************************)
InitParser ==
    /\ text \in Texts
    /\ rest = text
    /\ parser = reset
    /\ chunked = FALSE
    /\ opts = NoOptions /\ op = NoPromise /\ wrapper = NotCalled /\ timer = "none"
    /\ signal = "none" /\ cancelCalls = 0
    /\ xch = XchIdle /\ progress = <<>> /\ delivered = <<>>
    /\ calls = NoCalls /\ handlers = {} /\ session = NoSession /\ trace = NoTrace
    /\ now = 0 /\ cache = NoEntry /\ lastRefresh = NoRefresh
    /\ notified = "none" /\ refreshSeen = [c \in 1..NumCalls |-> "none"]

SpecParser == InitParser /\ [][FeedChunk]_vars

InitDataLine ==
    /\ text \in DataLineTexts
    /\ rest = text
    /\ parser = reset
    /\ chunked = FALSE
    /\ opts = NoOptions /\ op = NoPromise /\ wrapper = NotCalled /\ timer = "none"
    /\ signal = "none" /\ cancelCalls = 0
    /\ xch = XchIdle /\ progress = <<>> /\ delivered = <<>>
    /\ calls = NoCalls /\ handlers = {} /\ session = NoSession /\ trace = NoTrace
    /\ now = 0 /\ cache = NoEntry /\ lastRefresh = NoRefresh
    /\ notified = "none" /\ refreshSeen = [c \in 1..NumCalls |-> "none"]

SpecDataLine == InitDataLine /\ [][FeedChunk]_vars

InitBytes ==
    /\ text \in ByteTexts
    /\ rest = text
    /\ parser = reset
    /\ chunked = FALSE
    /\ opts = NoOptions /\ op = NoPromise /\ wrapper = NotCalled /\ timer = "none"
    /\ signal = "none" /\ cancelCalls = 0
    /\ xch = XchIdle /\ progress = <<>> /\ delivered = <<>>
    /\ calls = NoCalls /\ handlers = {} /\ session = NoSession /\ trace = NoTrace
    /\ now = 0 /\ cache = NoEntry /\ lastRefresh = NoRefresh
    /\ notified = "none" /\ refreshSeen = [c \in 1..NumCalls |-> "none"]

SpecBytes == InitBytes /\ [][FeedBytes]_vars

\* the parser receives whole lines, one feed call for each: text is the
\* sequence of the lines received so far, without their line ends
InitLine ==
    /\ text = <<>>
    /\ rest = <<>>
    /\ parser = reset
    /\ chunked = FALSE
    /\ opts = NoOptions /\ op = NoPromise /\ wrapper = NotCalled /\ timer = "none"
    /\ signal = "none" /\ cancelCalls = 0
    /\ xch = XchIdle /\ progress = <<>> /\ delivered = <<>>
    /\ calls = NoCalls /\ handlers = {} /\ session = NoSession /\ trace = NoTrace
    /\ now = 0 /\ cache = NoEntry /\ lastRefresh = NoRefresh
    /\ notified = "none" /\ refreshSeen = [c \in 1..NumCalls |-> "none"]

SpecLine == InitLine /\ [][ReceiveLine]_vars

InitTimeout ==
    /\ opts = NoOptions
    /\ op \in [state : {"pending", "fulfilled", "rejected"}, value : {NoValue},
               hasCancel : BOOLEAN]
    /\ wrapper = NotCalled
    /\ timer = "none"
    /\ signal \in {"none", "idle", "aborted"}
    /\ cancelCalls = 0
    /\ text = <<>> /\ rest = <<>> /\ parser = reset /\ chunked = FALSE
    /\ xch = XchIdle /\ progress = <<>> /\ delivered = <<>>
    /\ calls = NoCalls /\ handlers = {} /\ session = NoSession /\ trace = NoTrace
    /\ now = 0 /\ cache = NoEntry /\ lastRefresh = NoRefresh
    /\ notified = "none" /\ refreshSeen = [c \in 1..NumCalls |-> "none"]

\* pTimeout2 is called with some options
Call ==
    /\ \E ms \in Durations, fallback \in Fallbacks, message \in Messages,
          withSignal \in BOOLEAN :
         PTimeout2(ms, fallback, message, withSignal)
    /\ UNCHANGED timeoutFrame

\* the wrapped operation fulfils or rejects
OpSettles ==
    /\ \E state \in {"fulfilled", "rejected"} :
         SettleOp(state, Value(IF state = "fulfilled" THEN "snapshot" ELSE "OpError", 0, NoSnap))
    /\ UNCHANGED timeoutFrame

TimerFires == TimerFire /\ UNCHANGED timeoutFrame
SignalAborts == SignalAbort /\ UNCHANGED timeoutFrame
Clears == Clear /\ UNCHANGED timeoutFrame

NextTimeout ==
    \/ Call
    \/ OpSettles
    \/ TimerFires
    \/ SignalAborts
    \/ Clears

SpecTimeout == InitTimeout /\ [][NextTimeout]_vars

InitExchange ==
    /\ opts \in ExchangeOptions
    /\ opts.variant = "browser" => (~opts.abortSignal /\ opts.markdown)
    /\ ~opts.timeoutGiven => opts.timeoutMs = 0
    /\ xch = [XchIdle EXCEPT !.pc = "start", !.conversationId = opts.conversationId,
                             !.messageId = "m1"]
    /\ op = NoPromise
    /\ wrapper = NotCalled
    /\ timer = "none"
    /\ signal = IF opts.abortSignal THEN "idle" ELSE "none"
    /\ cancelCalls = 0
    /\ progress = <<>>
    /\ delivered = <<>>
    /\ text = <<>> /\ rest = <<>> /\ parser = reset /\ chunked = FALSE
    /\ calls = NoCalls /\ handlers = {} /\ session = NoSession /\ trace = NoTrace
    /\ now = 0 /\ cache = NoEntry /\ lastRefresh = NoRefresh
    /\ notified = "none" /\ refreshSeen = [c \in 1..NumCalls |-> "none"]

NextExchange ==
    \/ ApiStart
    \/ BrowserStart
    \/ StartDeadline
    \/ FetchResponse
    \/ Deliver
    \/ StreamEnd
    \/ StreamError
    \/ ExchangeTimerFire
    \/ CallerAbort
    \/ AbortObserved

SpecExchange == InitExchange /\ [][NextExchange]_vars

\* the constructor: the cache is empty, or holds the accessToken option
InitCache ==
    /\ now = 0
    /\ cache \in {NoEntry} \cup { [has |-> TRUE, value |-> v, setAt |-> 0, expiry |-> accessTokenTTL] : v \in Tokens }
    /\ lastRefresh = NoRefresh
    /\ text = <<>> /\ rest = <<>> /\ parser = reset /\ chunked = FALSE
    /\ opts = NoOptions /\ op = NoPromise /\ wrapper = NotCalled /\ timer = "none"
    /\ signal = "none" /\ cancelCalls = 0
    /\ xch = XchIdle /\ progress = <<>> /\ delivered = <<>>
    /\ calls = NoCalls /\ handlers = {} /\ session = NoSession /\ trace = NoTrace
    /\ notified = "none" /\ refreshSeen = [c \in 1..NumCalls |-> "none"]

NextCache ==
    \/ Tick
    \/ RefreshStart
    \/ RefreshFinish
    \/ CloseSession

SpecCache == InitCache /\ [][NextCache]_vars

InitBrowser ==
    /\ calls = NoCalls
    /\ handlers = {}
    /\ session \in [authed : BOOLEAN, isRefreshing : {FALSE}]
    /\ trace = NoTrace
    /\ text = <<>> /\ rest = <<>> /\ parser = reset /\ chunked = FALSE
    /\ opts = NoOptions /\ op = NoPromise /\ wrapper = NotCalled /\ timer = "none"
    /\ signal = "none" /\ cancelCalls = 0
    /\ xch = XchIdle /\ progress = <<>> /\ delivered = <<>>
    /\ now = 0 /\ cache = NoEntry /\ lastRefresh = NoRefresh
    /\ notified = "none" /\ refreshSeen = [c \in 1..NumCalls |-> "none"]

NextBrowser ==
    \E c \in Calls :
        \/ Send(c)
        \/ LoopTop(c)
        \/ ResetDone(c)
        \/ Evaluate(c)
        \/ RefreshBegin(c)
        \/ RefreshEnd(c)
        \/ AfterRefresh(c)

SpecBrowser == InitBrowser /\ [][NextBrowser]_vars

\* the browser calls together with the partial responses their requests
\* report while page.evaluate is outstanding
NextProgress ==
    \E c \in Calls :
        \/ Send(c)
        \/ LoopTop(c)
        \/ ResetDone(c)
        \/ Evaluate(c)
        \/ RefreshBegin(c)
        \/ RefreshEnd(c)
        \/ AfterRefresh(c)
        \/ Progress(c)

SpecProgress == InitBrowser /\ [][NextProgress]_vars

\* the browser calls with the page reloads recorded in refreshSeen
NextRefresh ==
    \E c \in Calls :
        \/ Send(c)
        \/ LoopTop(c)
        \/ ResetDone(c)
        \/ EvaluateSeen(c)
        \/ RefreshBeginSeen(c)
        \/ RefreshEndSeen(c)
        \/ AfterRefresh(c)

SpecRefresh == InitBrowser /\ [][NextRefresh]_vars

\* The routing of partial responses by the function exposed to the page.
\* A partial response carries the message id of the request that produced
\* it (origMessageId) and the message id of the snapshot (messageId), the
\* request's id until the server supplies its own; 0 stands for a missing id.
\* handlers holds the keys of _messageOnProgressHandlers, delivered the
\* partial responses received and progress the callbacks invoked.
MaxNotified == 3
PartialResponses == [origMessageId : 0..NumCalls, messageId : 0..NumCalls]

\* the exposed function with the callback looked up under the snapshot's
\* messageId
ChatGPTAPIBrowserOnProgressByMessageId(registry, partialResponse) ==
    IF partialResponse.messageId # 0 /\ partialResponse.messageId \in registry
    THEN partialResponse.messageId
    ELSE 0

\* ChatGPTAPIBrowserOnProgress(partialResponse): the key of the callback it
\* invokes, 0 when it invokes none
ChatGPTAPIBrowserOnProgress(registry, partialResponse) ==
    IF partialResponse.origMessageId # 0 /\ partialResponse.origMessageId \in registry
    THEN partialResponse.origMessageId
    ELSE 0

\* the page reports a partial response
Notify ==
    /\ Len(delivered) < MaxNotified
    /\ \E partialResponse \in PartialResponses :
         LET h == ChatGPTAPIBrowserOnProgress(handlers, partialResponse) IN
         /\ delivered' = Append(delivered, partialResponse)
         /\ progress' = IF h = 0 THEN progress
                        ELSE Append(progress, [handler |-> h, arg |-> partialResponse])
    /\ UNCHANGED <<parserVars, timeoutVars, xch, browserVars, cacheVars, progressVars>>

InitRouting ==
    /\ handlers \in SUBSET Calls
    /\ calls = NoCalls /\ session = NoSession /\ trace = NoTrace
    /\ text = <<>> /\ rest = <<>> /\ parser = reset /\ chunked = FALSE
    /\ opts = NoOptions /\ op = NoPromise /\ wrapper = NotCalled /\ timer = "none"
    /\ signal = "none" /\ cancelCalls = 0
    /\ xch = XchIdle /\ progress = <<>> /\ delivered = <<>>
    /\ now = 0 /\ cache = NoEntry /\ lastRefresh = NoRefresh
    /\ notified = "none" /\ refreshSeen = [c \in 1..NumCalls |-> "none"]

SpecRouting == InitRouting /\ [][Notify]_vars


(***************************************************************************)
(* Properties                                                              *)
(***************************************************************************)
\* the transport attempts of a call's trace, in order
TransportOf(t) == SelectSeq(t, LAMBDA e : e \in TransportOutcomes)

\* C1: when a text has been fed to one parser in chunks cut at any offsets,
\* the events emitted are those one feed call with the whole text emits.
C1_ChunkingIndependent ==
    rest = <<>> => EventsOf(parser.out) = FeedWhole(text)

\* C2: a call whose first transport attempt returns 401, and whose later
\* attempts (if made) succeed, has ended after exactly one resetSession and
\* one retry, with the snapshot of the second attempt.
C2_OneReauthOneRetry ==
    \A c \in Calls :
        ( /\ calls[c].pc = "done"
          /\ trace[c] # <<>>
          /\ trace[c][1] = "e401"
          /\ \A i \in 2..Len(TransportOf(trace[c])) : TransportOf(trace[c])[i] = "ok" )
        => /\ trace[c] = <<"e401", "reset", "ok">>
           /\ calls[c].outcome = "snapshot"

\* C3: a call whose transport attempts all return 401, starting with the
\* first, ends by throwing an error with statusCode 401 after exactly two
\* attempts.
C3_TwoAuthFailuresThrow ==
    \A c \in Calls :
        ( /\ calls[c].pc = "done"
          /\ trace[c] # <<>>
          /\ trace[c][1] = "e401"
          /\ \A i \in 2..Len(TransportOf(trace[c])) : TransportOf(trace[c])[i] = "e401" )
        => /\ calls[c].outcome = "error"
           /\ calls[c].status = 401
           /\ Len(TransportOf(trace[c])) = 2

\* C4: when the stream has delivered response snapshots (and nothing but
\* payloads) and then ended normally, with no deadline elapsed and no abort,
\* the exchange has resolved with the last snapshot.
C4_StreamEndResolves ==
    ( /\ xch.stream = "ended"
      /\ timer # "fired" /\ ~xch.aborted /\ wrapper.mode # "invalid"
      /\ \A i \in 1..Len(delivered) : delivered[i].kind = "payload"
      /\ \E i \in 1..Len(delivered) : delivered[i].text # "" )
    => /\ Outcome = "snapshot"
       /\ Returned = CurrentSnapshot

\* C5: a sendMessage call that has ended has returned a snapshot or thrown an
\* error: it has not returned without a snapshot.
C5_SnapshotOrError ==
    \A c \in Calls : calls[c].pc = "done" => calls[c].outcome \in {"snapshot", "error"}

\* C6: when a sendMessage call has ended, on any path, its message id is no
\* longer registered in _messageOnProgressHandlers.
C6_HandlerReleased ==
    \A c \in Calls : calls[c].pc = "done" => c \notin handlers

\* C7 as stated: once the timer has fired, with no fallback, the wrapper is
\* rejected with a TimeoutError and promise.cancel, if there is one, has been
\* invoked exactly once.
C7_TimeoutRejects ==
    (timer = "fired" /\ wrapper.fallback = "none")
    => /\ wrapper.state = "rejected"
       /\ wrapper.value.kind = "TimeoutError"
       /\ cancelCalls = IF op.hasCancel THEN 1 ELSE 0

\* C7 as amended: when the timer fires, with no fallback, with no Error
\* given as message and with no signal the wrapper listens to already
\* aborted, the wrapper is from then on rejected with a TimeoutError; and
\* with no fallback, promise.cancel, if there is one, is invoked at that
\* moment and at no other, so exactly once.
C7_TimeoutRejectsUnlessAborted ==
    /\ [](cancelCalls <= 1)
    /\ [][ (timer = "armed" /\ timer' = "fired" /\ wrapper.fallback = "none")
           => /\ cancelCalls' = IF op.hasCancel THEN 1 ELSE 0
              /\ (~(wrapper.listens /\ signal = "aborted") /\ wrapper.message # "error")
                 => (wrapper'.state = "rejected" /\ wrapper'.value.kind = "TimeoutError") ]_vars
    /\ [][ ~(timer = "armed" /\ timer' = "fired") => cancelCalls' = cancelCalls ]_vars
    /\ [][ (wrapper.state = "rejected" /\ wrapper.value.kind = "TimeoutError")
           => wrapper' = wrapper ]_vars

\* C7 witness: the timer has fired on a pending operation that has a cancel
\* function, which was invoked once, and the wrapper is rejected with a
\* TimeoutError.
C7_Witness ==
    /\ timer = "fired" /\ wrapper.fallback = "none"
    /\ op.hasCancel /\ cancelCalls = 1
    /\ wrapper.state = "rejected" /\ wrapper.value.kind = "TimeoutError"

\* C8: a call given a non-positive timeoutMs issues no transport request and,
\* once started (and unless the credential refresh failed first), has failed
\* with the invalid-input error (TypeError).
C8_NonPositiveRejected ==
    (opts.timeoutGiven /\ opts.timeoutMs <= 0 /\ xch.early.kind = "none")
    => /\ xch.fetchCalls = 0
       /\ xch.pc # "start" => (Outcome = "error" /\ Awaited.value.kind = "TypeError")

\* C9: once a send-message call has settled (resolved, rejected or timed
\* out), the progress callback is not invoked again.
C9_NoProgressAfterSettled ==
    [][ Outcome # "pending" => progress' = progress ]_vars

\* C10: an event whose data JSON.parse rejects changes neither the snapshot
\* nor the state of the call, and invokes no progress callback.
C10_UnparseableSkipped ==
    [][ delivered' = Append(delivered, BAD)
        => (xch' = xch /\ progress' = progress /\ op' = op /\ wrapper' = wrapper) ]_vars

\* C11: when the stream has failed with a "terminated" error after response
\* snapshots (and nothing but payloads) were received, at least one of them
\* non-empty, with no deadline elapsed and no abort, the exchange has
\* completed with the last snapshot.
C11_TerminatedResolves ==
    ( /\ xch.stream = "terminated"
      /\ xch.response # ""
      /\ timer # "fired" /\ ~xch.aborted /\ wrapper.mode # "invalid"
      /\ \A i \in 1..Len(delivered) : delivered[i].kind = "payload" )
    => /\ Outcome = "snapshot"
       /\ Returned = CurrentSnapshot


C13_OtherStatusThrows ==
    \A c \in Calls : \A i \in 1..Len(trace[c]) :
        trace[c][i] \in {"e500", "e0"}
        => /\ i = Len(trace[c])
           /\ calls[c].pc = "done"
           /\ calls[c].outcome = "error"
           /\ calls[c].status = StatusOf(trace[c][i])

\* C13 witness: a call has thrown the error of status 500 its retry after a
\* 403 returned.
C13_Witness ==
    \E c \in Calls :
        /\ trace[c] = <<"e403", "refresh", "e500">>
        /\ calls[c].pc = "done" /\ calls[c].outcome = "error" /\ calls[c].status = 500


\* C14: while a call given a positive finite timeoutMs awaits the initial
\* response or reads the stream, and has not settled, its deadline timer is
\* running.
C14_DeadlineCoversEveryStep ==
    ( /\ opts.timeoutGiven /\ opts.timeoutMs > 0 /\ opts.timeoutMs # Infinity
      /\ xch.pc \in {"fetching", "streaming"}
      /\ Outcome = "pending" )
    => timer = "armed"


\* C15: once the deadline of a call has expired, the abort signal of its
\* transport request has been triggered.
C15_TimeoutAbortsTransport ==
    timer = "fired" => xch.aborted


\* C16: a wrapper with a positive finite duration that listens to a signal is
\* rejected with the abort error, not the timeout error, at the moment the
\* signal aborts while the wrapper is pending, and at the call when the
\* signal is already aborted; no later timer expiry or settlement of the
\* operation changes that.
C16_AbortRejects ==
    /\ [][ (signal = "idle" /\ signal' = "aborted"
            /\ wrapper.listens /\ wrapper.state = "pending")
           => (wrapper'.state = "rejected" /\ wrapper'.value.kind = "AbortError") ]_vars
    /\ [][ (wrapper.state = "none" /\ wrapper'.mode = "timed"
            /\ wrapper'.listens /\ signal = "aborted")
           => (wrapper'.state = "rejected" /\ wrapper'.value.kind = "AbortError") ]_vars
    /\ [][ (wrapper.state = "rejected" /\ wrapper.value.kind = "AbortError")
           => wrapper' = wrapper ]_vars

\* C16 witness: the wrapper was rejected with the abort error of the signal
\* it listens to, and is so after the timer has fired and the operation has
\* fulfilled.
C16_Witness ==
    /\ wrapper.state = "rejected" /\ wrapper.value.kind = "AbortError"
    /\ wrapper.listens /\ signal = "aborted"
    /\ timer = "fired" /\ op.state = "fulfilled"


\* the part of text fed so far
Fed == SubSeq(text, 1, Len(text) - Len(rest))

\* the complete lines of t: each ends with CR LF, CR or LF; cur is the line
\* being read
RECURSIVE CompleteLines(_, _)
CompleteLines(t, cur) ==
    IF t = <<>> THEN <<>>
    ELSE IF Head(t) = CR
    THEN <<cur>> \o CompleteLines(IF Len(t) > 1 /\ t[2] = LF THEN Tail(Tail(t)) ELSE Tail(t), <<>>)
    ELSE IF Head(t) = LF
    THEN <<cur>> \o CompleteLines(Tail(t), <<>>)
    ELSE CompleteLines(Tail(t), Append(cur, Head(t)))

\* a line whose field name is data
IsDataLine(l) == l = S_data \/ (Len(l) > 4 /\ SubSeq(l, 1, 5) = S_data \o <<":">>)

\* the number of blank lines among ls that come after at least one data line
\* received since the previous such blank line
RECURSIVE BlankAfterData(_, _)
BlankAfterData(ls, hasData) ==
    IF ls = <<>> THEN 0
    ELSE IF Head(ls) = <<>>
    THEN (IF hasData THEN 1 ELSE 0) + BlankAfterData(Tail(ls), FALSE)
    ELSE BlankAfterData(Tail(ls), hasData \/ IsDataLine(Head(ls)))

\* C17: the number of events emitted so far is at most the number of blank
\* lines, each after at least one data line, in the text fed so far.
C17_NoEventWithoutBlankLine ==
    Len(EventsOf(parser.out))
        <= BlankAfterData(CompleteLines(IF hasBom(Fed) THEN SliceFrom(Fed, Len(BOM)) ELSE Fed, <<>>), FALSE)


\* the characters of s before its first line end
RECURSIVE UpToLineEnd(_)
UpToLineEnd(s) ==
    IF s = <<>> \/ Head(s) \in {CR, LF} THEN <<>> ELSE <<Head(s)>> \o UpToLineEnd(Tail(s))
\* the value of the data line a text of DataLineTexts starts with, as written
\* and as the parser is to report it (less one leading space)
WrittenValue == UpToLineEnd(SliceFrom(text, Len(S_data) + 1))
ReportedValue ==
    IF WrittenValue # <<>> /\ Head(WrittenValue) = " " THEN Tail(WrittenValue) ELSE WrittenValue

\* C18: when one data line and one blank line have been fed, in chunks cut
\* anywhere (inside the value in particular), exactly one event has been
\* emitted, its data is the value of the line, and it is the event one feed
\* call with the whole text emits.
C18_SplitValueOneEvent ==
    rest = <<>>
    => /\ EventsOf(parser.out)
            = << [type |-> "event", id |-> None, event |-> None, data |-> ReportedValue] >>
       /\ EventsOf(parser.out) = FeedWhole(text)

\* C18 witness: a data line with a value of several characters and its blank
\* line were fed in more than one chunk, and one event with that value was
\* emitted.
C18_Witness ==
    /\ rest = <<>> /\ chunked
    /\ Len(ReportedValue) >= 2
    /\ Len(EventsOf(parser.out)) = 1
    /\ EventsOf(parser.out)[1].data = ReportedValue


\* the position of the first colon of line l, 0 when it has none
RECURSIVE ColonAt(_, _)
ColonAt(l, i) == IF i > Len(l) THEN 0 ELSE IF l[i] = ":" THEN i ELSE ColonAt(l, i + 1)
\* the field name of a line, and its value less one leading space
FieldName(l) == IF ColonAt(l, 1) = 0 THEN l ELSE SubSeq(l, 1, ColonAt(l, 1) - 1)
FieldValue(l) ==
    LET c == ColonAt(l, 1)
        v == IF c = 0 THEN <<>> ELSE SubSeq(l, c + 1, Len(l))
    IN  IF v # <<>> /\ Head(v) = " " THEN Tail(v) ELSE v

\* the id and event name of each event the lines ls dispatch: a blank line
\* after data dispatches with the pending id and name and clears both; any
\* blank line clears the pending name; an id line with NUL in it is ignored
RECURSIVE DispatchedIds(_, _, _, _)
DispatchedIds(ls, id, name, hasData) ==
    IF ls = <<>> THEN <<>>
    ELSE LET l == Head(ls) IN
         IF l = <<>>
         THEN (IF hasData
               THEN << [id |-> id, event |-> IF name.some /\ name.val # <<>> THEN name ELSE None] >>
               ELSE <<>>)
              \o DispatchedIds(Tail(ls), IF hasData THEN None ELSE id, None, FALSE)
         ELSE IF FieldName(l) = S_data THEN DispatchedIds(Tail(ls), id, name, TRUE)
         ELSE IF FieldName(l) = S_id /\ ~(\E i \in 1..Len(l) : l[i] = NUL)
         THEN DispatchedIds(Tail(ls), Some(FieldValue(l)), name, hasData)
         ELSE IF FieldName(l) = S_event THEN DispatchedIds(Tail(ls), id, Some(FieldValue(l)), hasData)
         ELSE DispatchedIds(Tail(ls), id, name, hasData)

\* C19: when a text has been fed and as many events were emitted as its lines
\* dispatch, each event carries the id and the event name its lines set since
\* the previous dispatch, and none when no line set one.
C19_IdAndNamePerDispatch ==
    LET t == IF hasBom(text) THEN SliceFrom(text, Len(BOM)) ELSE text
        expected == DispatchedIds(CompleteLines(t, <<>>), None, None, FALSE)
        emitted == EventsOf(parser.out)
    IN  (rest = <<>> /\ Len(emitted) = Len(expected))
        => \A i \in 1..Len(emitted) :
               emitted[i].id = expected[i].id /\ emitted[i].event = expected[i].event


C21_DoneIsSentinel ==
    [][ delivered' = Append(delivered, DONE)
        => /\ xch' = xch
           /\ progress' = progress
           /\ IF op.state = "pending"
              THEN /\ op'.state = "fulfilled"
                   /\ op'.value = Value("snapshot", 0, CurrentSnapshot)
              ELSE op' = op ]_vars

\* C21 witness: [DONE] arrived after a payload and resolved responseP with the
\* snapshot that payload left.
C21_Witness ==
    /\ Len(delivered) >= 2
    /\ delivered[Len(delivered)] = DONE
    /\ delivered[Len(delivered) - 1].kind = "payload"
    /\ op.state = "fulfilled"
    /\ op.value.snap = CurrentSnapshot
    /\ xch.response # ""


\* the response text of the most recent event among evs that supplied a
\* non-empty one, "" when none did
RECURSIVE LastText(_)
LastText(evs) ==
    IF evs = <<>> THEN ""
    ELSE IF evs[Len(evs)].kind = "payload" /\ evs[Len(evs)].text # ""
    THEN evs[Len(evs)].text
    ELSE LastText(SubSeq(evs, 1, Len(evs) - 1))

\* C22 as stated: the response text of the snapshot is the text of the most
\* recent event that supplied a non-empty one, and a call that resolves
\* resolves with that text.
C22_ResponseIsLastText ==
    /\ [](xch.response = LastText(delivered))
    /\ [][ (op.state = "pending" /\ op'.state = "fulfilled")
           => op'.value.snap.response = LastText(delivered') ]_vars

\* C22 as amended: the response text of the snapshot is the text of the most
\* recent event that supplied a non-empty one, converted by markdownToText
\* when the markdown option of ChatGPTAPI is off, and a call that resolves
\* resolves with that text.
C22_ResponseIsLastTextConverted ==
    /\ [](xch.response = IF LastText(delivered) = "" THEN "" ELSE ApiText(LastText(delivered)))
    /\ [][ (op.state = "pending" /\ op'.state = "fulfilled")
           => op'.value.snap.response
                  = IF LastText(delivered') = "" THEN "" ELSE ApiText(LastText(delivered')) ]_vars

\* C22 witness: two events supplied different texts and the call resolved
\* with the second.
C22_Witness ==
    /\ Len(delivered) = 3
    /\ delivered[1].text = "t1" /\ delivered[2].text = "t2" /\ delivered[3] = DONE
    /\ xch.response = "t2"
    /\ op.state = "fulfilled" /\ op.value.snap.response = "t2"


\* C23: the snapshot starts with the caller's conversation id and the
\* request's message id; its conversation id (message id) changes only in a
\* step that delivers a payload with a non-empty conversation_id (message.id),
\* to that value, and a delivered payload that supplies one sets it.
C23_IdsRetained ==
    /\ [](delivered = <<>>
          => (xch.conversationId = opts.conversationId /\ xch.messageId = "m1"))
    /\ [][ xch'.conversationId # xch.conversationId
           => /\ Len(delivered') = Len(delivered) + 1
              /\ delivered'[Len(delivered')].kind = "payload"
              /\ delivered'[Len(delivered')].conv # ""
              /\ delivered'[Len(delivered')].conv = xch'.conversationId ]_vars
    /\ [][ xch'.messageId # xch.messageId
           => /\ Len(delivered') = Len(delivered) + 1
              /\ delivered'[Len(delivered')].kind = "payload"
              /\ delivered'[Len(delivered')].msg # ""
              /\ delivered'[Len(delivered')].msg = xch'.messageId ]_vars
    /\ [][ (Len(delivered') = Len(delivered) + 1
            /\ delivered'[Len(delivered')].kind = "payload")
           => /\ delivered'[Len(delivered')].conv # ""
                 => xch'.conversationId = delivered'[Len(delivered')].conv
              /\ delivered'[Len(delivered')].msg # ""
                 => xch'.messageId = delivered'[Len(delivered')].msg ]_vars

\* C23 witness: after an event supplied both ids, an event that supplied only
\* a response text left them as they were.
C23_Witness ==
    /\ Len(delivered) = 2
    /\ delivered[1] = Event("payload", "c2", "m2", "t1")
    /\ delivered[2] = Event("payload", "", "", "t2")
    /\ xch.conversationId = "c2" /\ xch.messageId = "m2" /\ xch.response = "t2"


\* C24: progress handlers are keyed by message id.  With two browser calls
\* in flight under different message ids, a partial response produced by the
\* request of one call never runs the callback of the other call, and a
\* call's entry in the handler map is added or removed only by a step of
\* that same call.
C24_HandlersKeyedById ==
    [][ /\ notified' # "other"
        /\ notified' # notified => handlers' = handlers
        /\ \A d \in Calls :
             ((d \in handlers') # (d \in handlers)) => calls'[d] # calls[d] ]_vars

\* a partial response reached the callback of the call that produced it
\* while two calls had page.evaluate outstanding, each with its callback
\* registered
C24_Witness ==
    /\ notified = "own"
    /\ \E c, d \in Calls :
         /\ c # d
         /\ calls[c].pc = "evaluate" /\ calls[d].pc = "evaluate"
         /\ {c, d} \subseteq handlers

\* C25: a refreshSession call returns the cached token without a request to
\* the session endpoint when the cache holds an unexpired token, and sends
\* one request otherwise; after a call that stored the token it was given,
\* the next call, made before the entry expires and with no closeSession in
\* between, sends no request; the first call after closeSession always
\* sends one.
C25_CachedOrContacted ==
    [][ lastRefresh'.seq # lastRefresh.seq
        => /\ IF CacheGet # 0
              THEN ~lastRefresh'.contacted /\ lastRefresh'.result = CacheGet
              ELSE lastRefresh'.contacted
           /\ ( /\ lastRefresh.contacted /\ lastRefresh.result # 0
                /\ ~lastRefresh.closed
                /\ now < cache.setAt + accessTokenTTL )
              => ~lastRefresh'.contacted
           /\ lastRefresh.closed => lastRefresh'.contacted ]_vars


\* C26: once every byte has been delivered, the events handed to the
\* consumer are those of the same bytes delivered as one chunk, also when a
\* chunk boundary fell between the two bytes of a character of the data
\* value.
C26_SplitCharacterSameData ==
    rest = <<>> => EventsOf(parser.out) = FeedWhole(TextDecoderDecode(text))


\* C27: a LF is part of the preceding line end exactly when it comes directly
\* after a CR, in the same chunk or the next, and every other LF ends a line
\* of its own.  The lines read are then those of CompleteLines, so once a
\* text without byte order mark has been fed, one event was emitted for each
\* of its blank lines that follow a data line.
C27_NewlineAfterCarriageReturn ==
    (rest = <<>> /\ ~hasBom(text))
        => Len(EventsOf(parser.out)) = BlankAfterData(CompleteLines(text, <<>>), FALSE)


\* C28: no for loop of feed reads a buffer character at an index below the
\* unconsumed position: each scan starts at position, or at the first
\* character not scanned yet when the line continues from an earlier chunk.
C28_NoRescan ==
    ~parser.rescanned


\* C29: a call that is about to retry after a 403 has seen a page reload of
\* refreshSession begin after that failure and end, whatever the other calls
\* were doing meanwhile.
C29_RetryAfterOwnRefresh ==
    \A c \in Calls :
        ( /\ calls[c].pc = "evaluate"
          /\ calls[c].numTries = 1
          /\ calls[c].status = 403 )
        => refreshSeen[c] = "completed"


\* C30: a sendMessage call makes at most two transport attempts, whatever
\* the attempts give: a throw, 401, 403 or another failure; every failed
\* attempt counts in numTries.
C30_AtMostTwoAttempts ==
    \A c \in Calls :
        /\ Len(TransportOf(trace[c])) <= 2
        /\ calls[c].numTries = Len(SelectSeq(TransportOf(trace[c]), LAMBDA o : o # "ok"))

\* a call that ended after two failed attempts of different kinds, one
\* thrown and one answered 401 or 403
C30_Witness ==
    \E c \in Calls :
        /\ calls[c].pc = "done"
        /\ Len(TransportOf(trace[c])) = 2
        /\ "throw" \in {trace[c][i] : i \in 1..Len(trace[c])}
        /\ {"e401", "e403"} \cap {trace[c][i] : i \in 1..Len(trace[c])} # {}


C32_IdLineWithNul ==
    [][ (text' # text /\ FieldName(text'[Len(text')]) = S_id)
        => LET l == text'[Len(text')] IN
           /\ parser'.eventId = IF \E i \in 1..Len(l) : l[i] = NUL
                                THEN parser.eventId ELSE Some(FieldValue(l))
           /\ parser'.data = parser.data
           /\ parser'.eventName = parser.eventName
           /\ parser'.out = parser.out ]_vars

\* id 2 was replaced by id 1, an id line with NUL followed, and the event
\* dispatched after it has id 1
C32_Witness ==
    /\ text = << <<"i", "d", ":", "2">>, <<"i", "d", ":", "1">>, <<"i", "d", ":", "3", NUL>>,
                 <<"d", "a", "t", "a", ":", " ", "x">>, <<>> >>
    /\ Len(EventsOf(parser.out)) = 1
    /\ EventsOf(parser.out)[1].id = Some(<<"1">>)


\* the data of each event the lines ls dispatch: the values of the data
\* lines received since the previous dispatch, joined by single line feeds
RECURSIVE JoinedData(_, _, _)
JoinedData(ls, acc, hasData) ==
    IF ls = <<>> THEN <<>>
    ELSE LET l == Head(ls) IN
         IF l = <<>>
         THEN (IF hasData THEN <<acc>> ELSE <<>>) \o JoinedData(Tail(ls), <<>>, FALSE)
         ELSE IF FieldName(l) = S_data
         THEN JoinedData(Tail(ls),
                         IF hasData THEN acc \o <<LF>> \o FieldValue(l) ELSE FieldValue(l),
                         TRUE)
         ELSE JoinedData(Tail(ls), acc, hasData)

C34_OperationFirst ==
    /\ [][ (op.state = "pending" /\ op'.state # "pending"
            /\ wrapper.state # "none" /\ timer # "fired")
           => /\ wrapper'.state = op'.state /\ wrapper'.value = op'.value
              /\ timer' # "armed" ]_vars
    /\ [][ (wrapper.state = "none" /\ wrapper'.state # "none" /\ op.state # "pending")
           => /\ wrapper'.state = op.state /\ wrapper'.value = op.value
              /\ timer' # "armed" ]_vars
    /\ [][ (op.state # "pending" /\ timer # "fired")
           => (timer' \notin {"armed", "fired"} /\ cancelCalls' = 0) ]_vars

\* C34 as amended: the same for a call with a positive duration whose
\* signal, if it listens to one, has not aborted before the operation
\* settles.
C34_OperationFirstUnlessAborted ==
    /\ [][ (op.state = "pending" /\ op'.state # "pending"
            /\ wrapper.mode \in {"timed", "follow"} /\ timer # "fired"
            /\ ~(wrapper.listens /\ signal = "aborted"))
           => /\ wrapper'.state = op'.state /\ wrapper'.value = op'.value
              /\ timer' # "armed" ]_vars
    /\ [][ (wrapper.state = "none" /\ wrapper'.mode \in {"timed", "follow"}
            /\ op.state # "pending" /\ ~(wrapper'.listens /\ signal = "aborted"))
           => /\ wrapper'.state = op.state /\ wrapper'.value = op.value
              /\ timer' # "armed" ]_vars
    /\ [][ (op.state # "pending" /\ timer # "fired")
           => (timer' \notin {"armed", "fired"} /\ cancelCalls' = 0) ]_vars

\* an operation with a cancel function fulfilled while the timer was armed:
\* the wrapper is fulfilled with its value, the timer is cleared, cancel was
\* not invoked, and the abort of the signal afterwards changed nothing
C34_Witness ==
    /\ op.state = "fulfilled" /\ op.hasCancel
    /\ wrapper.mode = "timed" /\ wrapper.state = "fulfilled" /\ wrapper.value = op.value
    /\ timer = "cleared" /\ cancelCalls = 0
    /\ wrapper.listens /\ signal = "aborted"


\* C35: once the stream has failed with 'terminated' while no response text
\* was stored and no [DONE] had been received, the exchange has been
\* reported as a failure: the call has an error outcome, in particular not a
\* snapshot with an empty response.
C35_TerminatedEmptyFails ==
    ( /\ xch.stream = "terminated"
      /\ xch.response = ""
      /\ \A i \in 1..Len(delivered) : delivered[i].kind # "done" )
    => Outcome = "error"


\* C36: when a call leaves resetSession and the session is not signed in,
\* the call ends there with an error of status code 401, its progress
\* handler is no longer registered, and no transport attempt was made.
C36_NotSignedInThrows ==
    [][ \A c \in Calls :
          (calls[c].pc = "reset" /\ calls'[c].pc # "reset" /\ ~session'.authed)
          => /\ calls'[c].pc = "done"
             /\ calls'[c].outcome = "error" /\ calls'[c].status = 401
             /\ calls'[c].numTries = calls[c].numTries
             /\ trace'[c] = trace[c]
             /\ c \notin handlers' ]_vars

\* a call that registered a progress handler, found the session signed out,
\* went through resetSession once and ended with 401 without any attempt
C36_Witness ==
    \E c \in Calls :
        /\ calls[c].onProgress /\ calls[c].pc = "done"
        /\ calls[c].outcome = "error" /\ calls[c].status = 401
        /\ trace[c] = <<"reset">>
        /\ ~session.authed /\ c \notin handlers


\* C37: at most one call is reloading the page at any time, _isRefreshing is
\* set exactly while some call is reloading, and a call that enters
\* refreshSession while the flag is set returns without reloading and
\* without touching the flag.
C37_OneReloadAtATime ==
    /\ [](/\ Cardinality({c \in Calls : calls[c].pc = "reloading"}) <= 1
          /\ session.isRefreshing <=> (\E c \in Calls : calls[c].pc = "reloading"))
    /\ [][ \A c \in Calls :
             (calls[c].pc = "refresh" /\ session.isRefreshing /\ calls'[c].pc # "refresh")
             => (calls'[c].pc = "refreshed" /\ session' = session) ]_vars

\* one call is reloading the page and the other, answered 403 meanwhile, has
\* already returned from refreshSession
C37_Witness ==
    \E c, d \in Calls :
        /\ c # d
        /\ calls[c].pc = "reloading" /\ session.isRefreshing
        /\ calls[d].pc = "refreshed"
        /\ trace[d] # <<>> /\ trace[d][Len(trace[d])] = "refresh"


=============================================================================
